---- MODULE Spec2Model ----
(***************************************************************************)
(* Receiptify (src/index.tsx): the App component as a state machine.        *)
(*                                                                         *)
(* The hook state (expenses, image, isLoading, error, userId, sortOrder,   *)
(* editingId, editedExpense) is the state React holds.  `rendered` is the  *)
(* part of it the last render closed over: the DOM and every handler and   *)
(* effect created by that render read these values, while updater          *)
(* functions (setExpenses(prev => ...)) run on the hook state itself.       *)
(* A UI event (change, click) is a discrete event: React re-renders and    *)
(* flushes the effects before the next event, so a UI action is the        *)
(* handler, the render and the effects together.  The continuation of      *)
(* handleImageChange after an await and the effects of the startup run     *)
(* outside a UI event: their updates are rendered by a later task          *)
(* (Render), and the effects of that render run after it, one at a time.   *)
(***************************************************************************)
EXTENDS Integers, Sequences, FiniteSets, TLC

VARIABLES
  expenses,       \* useState([])      the in-memory collection
  image,          \* useState(null)    preview object URL
  isLoading,      \* useState(false)
  error,          \* useState(null)    error banner
  userId,         \* useState(null)
  sortOrder,      \* useState('desc')
  editingId,      \* useState(null)    <<>> or <<id>>
  editedExpense,  \* useState(null)    <<>> or <<record>>
  rendered,       \* the values the last render closed over
  renderQueued,   \* a state update is waiting for a render
  expensesSet,    \* setExpenses was called since the last render
  effects,        \* effects of the last render still to run, in order
  localStorage,   \* [userId: the receiptify_userId item, expenses: the expenses_<id> items]
  inputValue,     \* e.target.value of the receipt-upload input
  jobs,           \* each handleImageChange call's position
  now,            \* the last reading of Date.now()
  requests,       \* generateContent calls made since the page was loaded
  writeOk,        \* the last localStorage.setItem of the save effect succeeded
  writeFailures,  \* setItem calls that threw so far
  restarts,       \* page loads so far
  editOps,        \* editing-buffer operations so far
  lastOp,         \* the step taken last
  finished,       \* the handleImageChange calls that succeeded, in completion order
  mounted         \* what the page found when it was loaded

vars == <<expenses, image, isLoading, error, userId, sortOrder, editingId,
          editedExpense, rendered, renderQueued, expensesSet, effects,
          localStorage, inputValue, jobs, now, requests, writeOk, restarts,
          editOps, lastOp, writeFailures, finished, mounted>>

(***************************************************************************)
(* Bounds of the model.                                                    *)
(***************************************************************************)
MaxIngest == 2
MaxRestarts == 1
MaxEditOps == 1
MaxWriteFailures == 1

(***************************************************************************)
(* Values.                                                                 *)
(***************************************************************************)
Null == "null"
Tokens == {"user_a", "user_b"}
\* What crypto.randomUUID() can give a profile that holds no token.
FreshTokens == {"user_b"}

LoadError == "Could not load saved expenses."
SaveError == "Could not save new expense."
IngestError == "Failed to process receipt. Please try another image."

\* A JS object is a record whose DOMAIN is the set of its own properties.
Has(obj, name) == name \in DOMAIN obj
\* obj.name || dflt on a numeric property: a missing property and 0 are falsy.
OrElse(obj, name, dflt) ==
  IF Has(obj, name) /\ obj[name] # 0 THEN obj[name] ELSE dflt
\* obj.name || '' on a text property.
OrEmpty(obj, name) == IF Has(obj, name) THEN obj[name] ELSE ""
\* {...obj, [name]: value}
SetProp(obj, name, value) ==
  [k \in DOMAIN obj \cup {name} |-> IF k = name THEN value ELSE obj[k]]

\* The receipt images the user can pick.
Files == {"cafe.jpg", "kiosk.jpg"}
NoFile == "-"

\* JSON.parse(response.text) when the model answers well-formed JSON for an image.
ModelAnswer(file) ==
  IF file = "cafe.jpg"
    THEN [merchant |-> "cafe", date |-> "2024-01-02", total |-> 5, currency |-> "KRW",
          items |-> << [description |-> "a", description_en |-> "A", price |-> 1200],
                       [description |-> "b", quantity |-> 2, unit_price |-> 3] >>]
    ELSE [merchant |-> "kiosk",
          items |-> << [description |-> "c", description_en |-> "C", quantity |-> 0,
                        unit_price |-> 0, price |-> 10] >>]

\* A record saved by an earlier session.
StoredRecord ==
  [id |-> 1, merchant |-> "old", date |-> "2023-12-31", total |-> 3,
   currency |-> "USD", items |-> <<>>]

(***************************************************************************)
(* localStorage items and JSON.  An item is absent (getItem gives null) or  *)
(* a string; a string is the JSON text of a value or is no JSON at all.    *)
(***************************************************************************)
NoItem == [kind |-> "absent"]
Garbage == [kind |-> "text", json |-> FALSE, value |-> <<>>]
\* JSON.stringify of a collection: the text of an array of objects, one per
\* record in order, each with the record's own properties.
JSONstringify(value) == [kind |-> "text", json |-> TRUE, value |-> value]
\* JSON.parse throws on a text that is no JSON.
ParseThrows(item) == ~item.json
JSONparse(item) == item.value

(***************************************************************************)
(* Initial state: the first render of App over what the browser profile    *)
(* holds.  A fresh profile holds nothing; a used one holds its token and,  *)
(* under the token's key, what an earlier session or anything else left.   *)
(***************************************************************************)
InitialStorage ==
  { [userId |-> Null, expenses |-> [t \in Tokens |-> NoItem]] }
  \cup
  { [userId |-> "user_a",
     expenses |-> [t \in Tokens |-> IF t = "user_a" THEN item ELSE NoItem]] :
      item \in {Garbage, JSONstringify(<<>>), JSONstringify(<<StoredRecord>>)} }

Jobs == 1..MaxIngest
NoJob == [phase |-> "none", file |-> NoFile]
InFlight(j) == jobs[j].phase \in {"reading", "requesting"}

\* What a page load finds under the identity's key, and the collection the
\* session that wrote it held.
Mounted(storage) ==
  LET item == IF storage.userId = Null THEN NoItem
              ELSE storage.expenses[storage.userId]
  IN [item |-> item,
      memory |-> IF item # NoItem /\ item.json THEN <<item.value>> ELSE <<>>]

Init ==
  /\ expenses = <<>>
  /\ image = Null
  /\ isLoading = FALSE
  /\ error = Null
  /\ userId = Null
  /\ sortOrder = "desc"
  /\ editingId = <<>>
  /\ editedExpense = <<>>
  /\ rendered = [expenses |-> <<>>, userId |-> Null, isLoading |-> FALSE]
  /\ renderQueued = FALSE
  /\ expensesSet = FALSE
  /\ effects = <<"identity", "load", "save">>
  /\ localStorage \in InitialStorage
  /\ inputValue = ""
  /\ jobs = [j \in Jobs |-> NoJob]
  /\ now = 2
  /\ requests = 0
  /\ writeOk = TRUE
  /\ writeFailures = 0
  /\ restarts = 0
  /\ editOps = 0
  /\ lastOp = "mount"
  /\ finished = <<>>
  /\ mounted = Mounted(localStorage)

(***************************************************************************)
(* Effects.                                                                *)
(***************************************************************************)
\* An identity effect that creates a token on every page load.
IdentityEffectRegenerating ==
  /\ lastOp' = "identityEffect"
  /\ effects # <<>> /\ Head(effects) = "identity"
  /\ effects' = Tail(effects)
  /\ \E token \in FreshTokens :
       /\ localStorage' = [localStorage EXCEPT !.userId = token]
       /\ userId' = token
  /\ renderQueued' = TRUE
  /\ UNCHANGED <<expenses, image, isLoading, error, sortOrder, editingId,
                 editedExpense, rendered, expensesSet, inputValue, jobs, now,
                 requests, writeOk, writeFailures, restarts, editOps, mounted, finished>>

\* useEffect(..., []): read or create the identity token.
IdentityEffect ==
  /\ lastOp' = "identityEffect"
  /\ effects # <<>> /\ Head(effects) = "identity"
  /\ effects' = Tail(effects)
  /\ IF localStorage.userId = Null
       THEN \E token \in FreshTokens :
              /\ localStorage' = [localStorage EXCEPT !.userId = token]
              /\ userId' = token
       ELSE /\ userId' = localStorage.userId
            /\ UNCHANGED localStorage
  /\ renderQueued' = TRUE
  /\ UNCHANGED <<expenses, image, isLoading, error, sortOrder, editingId,
                 editedExpense, rendered, expensesSet, inputValue, jobs, now,
                 requests, writeOk, writeFailures, restarts, editOps, mounted, finished>>

\* A load effect whose catch block swallows the error.
LoadEffectSwallowing ==
  /\ lastOp' = "loadEffect"
  /\ effects # <<>> /\ Head(effects) = "load"
  /\ effects' = Tail(effects)
  /\ IF rendered.userId = Null \/ localStorage.expenses[rendered.userId] = NoItem
          \/ ParseThrows(localStorage.expenses[rendered.userId])
       THEN UNCHANGED <<expenses, expensesSet, renderQueued>>
       ELSE /\ expenses' = JSONparse(localStorage.expenses[rendered.userId])
            /\ expensesSet' = TRUE
            /\ renderQueued' = TRUE
  /\ UNCHANGED <<image, isLoading, error, userId, sortOrder, editingId, editedExpense,
                 rendered, localStorage, inputValue, jobs, now, requests,
                 writeOk, writeFailures, restarts, editOps, mounted, finished>>

\* useEffect(..., [userId]): load the collection stored under the identity's key.
LoadEffect ==
  /\ lastOp' = "loadEffect"
  /\ effects # <<>> /\ Head(effects) = "load"
  /\ effects' = Tail(effects)
  /\ IF rendered.userId = Null \/ localStorage.expenses[rendered.userId] = NoItem
       THEN UNCHANGED <<expenses, expensesSet, error, renderQueued>>
       ELSE IF ParseThrows(localStorage.expenses[rendered.userId])
              THEN /\ error' = LoadError
                   /\ renderQueued' = TRUE
                   /\ UNCHANGED <<expenses, expensesSet>>
              ELSE /\ expenses' = JSONparse(localStorage.expenses[rendered.userId])
                   /\ expensesSet' = TRUE
                   /\ renderQueued' = TRUE
                   /\ UNCHANGED error
  /\ UNCHANGED <<image, isLoading, userId, sortOrder, editingId, editedExpense,
                 rendered, localStorage, inputValue, jobs, now, requests,
                 writeOk, writeFailures, restarts, editOps, mounted, finished>>

\* localStorage after setItem(`expenses_${uid}`, JSON.stringify(records)).
SetExpensesItem(uid, records) ==
  [localStorage EXCEPT !.expenses[uid] = JSONstringify(records)]

\* A save effect whose catch block does not set the banner.
SaveBodySilent(uid, records, ok, err) ==
  IF uid = Null
    THEN [storage |-> localStorage, error |-> err, ok |-> writeOk, set |-> FALSE,
          failures |-> writeFailures]
    ELSE IF ok
      THEN [storage |-> SetExpensesItem(uid, records), error |-> err,
            ok |-> TRUE, set |-> FALSE, failures |-> writeFailures]
      ELSE [storage |-> localStorage, error |-> err, ok |-> FALSE,
            set |-> FALSE, failures |-> writeFailures + 1]

\* The body of the save effect over the values its render closed over:
\* ok is whether setItem returns (it throws when the quota is exceeded).
\* Gives localStorage, the error banner and writeOk; err is the banner before.
SaveBody(uid, records, ok, err) ==
  IF uid = Null
    THEN [storage |-> localStorage, error |-> err, ok |-> writeOk, set |-> FALSE,
          failures |-> writeFailures]
    ELSE IF ok
      THEN [storage |-> SetExpensesItem(uid, records), error |-> err,
            ok |-> TRUE, set |-> FALSE, failures |-> writeFailures]
      ELSE [storage |-> localStorage, error |-> SaveError, ok |-> FALSE,
            set |-> TRUE, failures |-> writeFailures + 1]

\* Whether a setItem call returns (TRUE) or throws (FALSE).
SetItemOutcomes == IF writeFailures < MaxWriteFailures THEN BOOLEAN ELSE {TRUE}
\* A storage that never runs out.
SetItemReturns == {TRUE}

\* useEffect(..., [expenses, userId]): write the collection through.
SaveEffect(ok) ==
  /\ lastOp' = "saveEffect"
  /\ effects # <<>> /\ Head(effects) = "save"
  /\ effects' = Tail(effects)
  /\ LET out == SaveBody(rendered.userId, rendered.expenses, ok, error) IN
       /\ localStorage' = out.storage
       /\ error' = out.error
       /\ writeOk' = out.ok
       /\ writeFailures' = out.failures
       /\ renderQueued' = (renderQueued \/ out.set)
  /\ UNCHANGED <<expenses, image, isLoading, userId, sortOrder, editingId,
                 editedExpense, rendered, expensesSet, inputValue, jobs, now,
                 requests, restarts, editOps, mounted, finished>>

\* A save effect that depends on [userId] alone.
EffectsOfIdentityOnly(userIdChanged, expensesChanged) ==
  IF userIdChanged THEN <<"load", "save">> ELSE <<>>

\* The save effect declared before the load effect.
EffectsOfSaveFirst(userIdChanged, expensesChanged) ==
  IF userIdChanged THEN <<"save", "load">>
  ELSE IF expensesChanged THEN <<"save">>
  ELSE <<>>

\* The effects a render schedules: those with a dependency that changed.
EffectsOf(userIdChanged, expensesChanged) ==
  IF userIdChanged THEN <<"load", "save">>
  ELSE IF expensesChanged THEN <<"save">>
  ELSE <<>>

\* A render outside a UI event: App runs again over the hook state.
Render ==
  /\ lastOp' = "render"
  /\ effects = <<>>
  /\ renderQueued
  /\ rendered' = [expenses |-> expenses, userId |-> userId, isLoading |-> isLoading]
  /\ effects' = EffectsOf(userId # rendered.userId, expensesSet)
  /\ renderQueued' = FALSE
  /\ expensesSet' = FALSE
  /\ UNCHANGED <<expenses, image, isLoading, error, userId, sortOrder, editingId,
                 editedExpense, localStorage, inputValue, jobs, now, requests,
                 writeOk, writeFailures, restarts, editOps, mounted, finished>>

(***************************************************************************)
(* UI events.  The controls exist once the identity has been rendered, and *)
(* React flushes pending effects before it runs a handler.                 *)
(***************************************************************************)
Interactive == effects = <<>> /\ rendered.userId = userId

\* The render and the effects that end a UI event whose handler leaves the
\* collection as records, isLoading as loading and the banner as err;
\* setNow is whether the handler called setExpenses, ok whether the save
\* effect's setItem returns.
Commit(records, loading, err, setNow, ok) ==
  /\ rendered' = [expenses |-> records, userId |-> userId, isLoading |-> loading]
  /\ renderQueued' = FALSE
  /\ expensesSet' = FALSE
  /\ effects' = <<>>
  /\ IF EffectsOf(FALSE, expensesSet \/ setNow) = <<"save">>
       THEN LET out == SaveBody(userId, records, ok, err) IN
              /\ localStorage' = out.storage
              /\ error' = out.error
              /\ writeOk' = out.ok
              /\ writeFailures' = out.failures
       ELSE /\ error' = err
            /\ UNCHANGED <<localStorage, writeOk, writeFailures>>

(***************************************************************************)
(* Receipt ingestion: handleImageChange.                                   *)
(***************************************************************************)
\* An input without the disabled attribute.
UploadNeverDisabled == FALSE

\* disabled={isLoading} on the receipt-upload input.
UploadDisabled == rendered.isLoading

\* item => ({description: ..., ..., price: item.price || 0})
NormalizeItem(item) ==
  [description |-> OrEmpty(item, "description"),
   description_en |-> OrEmpty(item, "description_en"),
   quantity |-> OrElse(item, "quantity", 1),
   unit_price |-> OrElse(item, "unit_price", OrElse(item, "price", 0)),
   price |-> OrElse(item, "price", 0)]

\* {...parsedData, items: (parsedData.items || []).map(...)}
ProcessedData(parsedData) ==
  LET items == IF Has(parsedData, "items") THEN parsedData.items ELSE <<>> IN
    SetProp(parsedData, "items", [i \in DOMAIN items |-> NormalizeItem(items[i])])

\* prevExpenses => [...prevExpenses, newExpense]
PrependAtEnd(parsedData, t, prevExpenses) ==
  prevExpenses \o <<SetProp(ProcessedData(parsedData), "id", t)>>

\* setExpenses([newExpense, ...expenses]) over the collection the render closed over.
PrependToRendered(parsedData, t, prevExpenses) ==
  <<SetProp(ProcessedData(parsedData), "id", t)>> \o rendered.expenses

\* prevExpenses => [{...processedData, id: Date.now()}, ...prevExpenses]
Prepend(parsedData, t, prevExpenses) ==
  <<SetProp(ProcessedData(parsedData), "id", t)>> \o prevExpenses

\* The change event of the input, up to the first await.
handleImageChange(j, file, ok) ==
  /\ lastOp' = "handleImageChange"
  /\ Interactive
  /\ jobs[j].phase = "none"
  /\ \A k \in Jobs : k < j => jobs[k].phase # "none"
  /\ jobs' = [jobs EXCEPT ![j] = [phase |-> "reading", file |-> file]]
  /\ image' = "blob"
  /\ isLoading' = TRUE
  /\ inputValue' = "file"
  /\ Commit(expenses, TRUE, Null, FALSE, ok)
  /\ UNCHANGED <<expenses, userId, sortOrder, editingId, editedExpense, now,
                 requests, restarts, editOps, mounted, finished>>

\* fileToGenerativePart resolved: generateContent is called.
SendRequest(j) ==
  /\ lastOp' = "sendRequest"
  /\ jobs[j].phase = "reading"
  /\ jobs' = [jobs EXCEPT ![j].phase = "requesting"]
  /\ requests' = requests + 1
  /\ UNCHANGED <<expenses, image, isLoading, error, userId, sortOrder, editingId,
                 editedExpense, rendered, renderQueued, expensesSet, effects,
                 localStorage, inputValue, now, writeOk, writeFailures, restarts, editOps, mounted, finished>>

\* The response arrived and JSON.parse(response.text) gave the model's
\* answer: the try block's end and the finally block.  t is the reading of
\* Date.now(), a wall clock in milliseconds: no earlier than the last reading.
IngestSuccess(j) ==
  /\ lastOp' = "ingestSuccess"
  /\ jobs[j].phase = "requesting"
  /\ \E t \in {now, now + 1} :
       /\ expenses' = Prepend(ModelAnswer(jobs[j].file), t, expenses)
       /\ now' = t
  /\ jobs' = [jobs EXCEPT ![j].phase = "success"]
  /\ finished' = Append(finished, j)
  /\ expensesSet' = TRUE
  /\ renderQueued' = TRUE
  /\ isLoading' = FALSE
  /\ image' = Null
  /\ inputValue' = ""
  /\ UNCHANGED <<error, userId, sortOrder, editingId, editedExpense, rendered,
                 effects, localStorage, requests, writeOk, writeFailures, restarts, editOps, mounted>>

\* A catch block that sends the request again after a failed request.
IngestFailureRetrying(j) ==
  /\ lastOp' = "ingestFailure"
  /\ InFlight(j)
  /\ IF jobs[j].phase = "reading"
       THEN /\ jobs' = [jobs EXCEPT ![j].phase = "readFailed"]
            /\ isLoading' = FALSE
            /\ image' = Null
            /\ inputValue' = ""
            /\ UNCHANGED requests
       ELSE /\ requests' = requests + 1
            /\ UNCHANGED <<jobs, isLoading, image, inputValue>>
  /\ error' = IngestError
  /\ renderQueued' = TRUE
  /\ UNCHANGED <<expenses, userId, sortOrder, editingId, editedExpense, rendered,
                 expensesSet, effects, localStorage, now, writeOk, writeFailures,
                 restarts, editOps, mounted, finished>>

\* Where an ingestion at this position can throw.
FailuresAt(phase) ==
  IF phase = "reading" THEN {"readFailed"} ELSE {"requestFailed", "decodeFailed"}

\* A handler whose cleanup is at the end of the try block, not in a finally.
IngestFailureWithoutFinally(j) ==
  /\ lastOp' = "ingestFailure"
  /\ InFlight(j)
  /\ \E outcome \in FailuresAt(jobs[j].phase) : jobs' = [jobs EXCEPT ![j].phase = outcome]
  /\ error' = IngestError
  /\ renderQueued' = TRUE
  /\ UNCHANGED <<expenses, image, isLoading, inputValue, userId, sortOrder, editingId,
                 editedExpense, rendered, expensesSet, effects, localStorage, now,
                 requests, writeOk, writeFailures, restarts, editOps, mounted, finished>>

\* The file read rejected, generateContent rejected or JSON.parse threw: the
\* catch block and the finally block.
IngestFailure(j) ==
  /\ lastOp' = "ingestFailure"
  /\ InFlight(j)
  /\ \E outcome \in FailuresAt(jobs[j].phase) : jobs' = [jobs EXCEPT ![j].phase = outcome]
  /\ error' = IngestError
  /\ renderQueued' = TRUE
  /\ isLoading' = FALSE
  /\ image' = Null
  /\ inputValue' = ""
  /\ UNCHANGED <<expenses, userId, sortOrder, editingId, editedExpense, rendered,
                 expensesSet, effects, localStorage, now, requests, writeOk, writeFailures,
                 restarts, editOps, mounted, finished>>

(***************************************************************************)
(* The expense list: sort toggle, edit session, delete.                    *)
(***************************************************************************)
\* A list that offers Edit and Delete on every record, the one in edit mode too.
ShownAll == {rendered.expenses[i] : i \in DOMAIN rendered.expenses}

\* The records the list shows with their Edit and Delete buttons
\* (renderExpenseItem): those of the last render not in edit mode.
Shown == {rendered.expenses[i] : i \in {k \in DOMAIN rendered.expenses :
                                          <<rendered.expenses[k].id>> # editingId}}

\* The edit form is on the page (renderEditForm): a rendered record has the
\* editing id.
FormShown == \E i \in DOMAIN rendered.expenses : <<rendered.expenses[i].id>> = editingId

\* new Date(date).getTime() of the dates of the model, in days since the epoch.
getTime(date) ==
  CASE date = "2023-12-31" -> 19722
    [] date = "2024-01-02" -> 19724

\* a.date ? new Date(a.date) : new Date(0): a missing or empty date is the epoch.
DateOf(expense) ==
  IF Has(expense, "date") /\ expense.date # "" THEN getTime(expense.date) ELSE 0

\* The comparator of the sort: negative when a goes before b.
CompareDates(a, b, order) ==
  IF order = "desc" THEN DateOf(b) - DateOf(a) ELSE DateOf(a) - DateOf(b)

\* [...expenses].sort(comparator): Array.prototype.sort is stable, so a
\* record goes before another when the comparator says so, or when it says
\* neither and the record comes first in the collection.
sortedExpenses(records, order) ==
  LET Before(k, i) ==
        \/ CompareDates(records[k], records[i], order) < 0
        \/ CompareDates(records[k], records[i], order) = 0 /\ k < i
      Rank(i) == 1 + Cardinality({k \in DOMAIN records : Before(k, i)})
  IN [p \in DOMAIN records |-> records[CHOOSE i \in DOMAIN records : Rank(i) = p]]

\* expenses.reduce((sum, expense) => sum + (expense.total || 0), 0)
RECURSIVE totalExpenses(_)
totalExpenses(records) ==
  IF records = <<>> THEN 0
  ELSE totalExpenses(SubSeq(records, 1, Len(records) - 1))
         + OrElse(records[Len(records)], "total", 0)

\* A toggle that sorts the collection itself: setExpenses(expenses.sort(...)).
toggleSortOrderInPlace(ok) ==
  /\ lastOp' = "toggleSortOrder"
  /\ Interactive
  /\ Len(rendered.expenses) > 0
  /\ sortOrder' = (IF sortOrder = "desc" THEN "asc" ELSE "desc")
  /\ expenses' = sortedExpenses(expenses, sortOrder')
  /\ Commit(expenses', isLoading, error, TRUE, ok)
  /\ UNCHANGED <<image, isLoading, userId, editingId, editedExpense,
                 inputValue, jobs, now, requests, restarts, editOps, mounted, finished>>

toggleSortOrder(ok) ==
  /\ lastOp' = "toggleSortOrder"
  /\ Interactive
  /\ Len(rendered.expenses) > 0
  /\ sortOrder' = (IF sortOrder = "desc" THEN "asc" ELSE "desc")
  /\ Commit(expenses, isLoading, error, FALSE, ok)
  /\ UNCHANGED <<expenses, image, isLoading, userId, editingId, editedExpense,
                 inputValue, jobs, now, requests, restarts, editOps, mounted, finished>>

\* Edit button of a shown record.
handleEdit(expense, ok) ==
  /\ lastOp' = "handleEdit"
  /\ Interactive
  /\ editingId' = <<expense.id>>
  /\ editedExpense' = <<JSONparse(JSONstringify(expense))>>
  /\ Commit(expenses, isLoading, error, FALSE, ok)
  /\ UNCHANGED <<expenses, image, isLoading, userId, sortOrder, inputValue, jobs,
                 now, requests, restarts, editOps, mounted, finished>>

\* expenses.map(exp => exp.id === editingId ? editedExpense : exp) over the
\* collection, editing id and buffer the handler's render closed over.
ReplaceEdited(records, id, buffer) ==
  [i \in DOMAIN records |-> IF <<records[i].id>> = id THEN buffer[1] ELSE records[i]]

\* A Cancel button that writes the buffer into the collection.
handleCancelEditCommitting(ok) ==
  /\ lastOp' = "handleCancelEdit"
  /\ Interactive
  /\ FormShown
  /\ expenses' = ReplaceEdited(rendered.expenses, editingId, editedExpense)
  /\ editingId' = <<>>
  /\ editedExpense' = <<>>
  /\ Commit(expenses', isLoading, error, TRUE, ok)
  /\ UNCHANGED <<image, isLoading, userId, sortOrder, inputValue, jobs, now,
                 requests, restarts, editOps, mounted, finished>>

\* Cancel button of the edit form.
handleCancelEdit(ok) ==
  /\ lastOp' = "handleCancelEdit"
  /\ Interactive
  /\ FormShown
  /\ editingId' = <<>>
  /\ editedExpense' = <<>>
  /\ Commit(expenses, isLoading, error, FALSE, ok)
  /\ UNCHANGED <<expenses, image, isLoading, userId, sortOrder, inputValue, jobs,
                 now, requests, restarts, editOps, mounted, finished>>

\* Save button of the edit form.
handleSaveEdit(ok) ==
  /\ lastOp' = "handleSaveEdit"
  /\ Interactive
  /\ FormShown
  /\ expenses' = ReplaceEdited(rendered.expenses, editingId, editedExpense)
  /\ editingId' = <<>>
  /\ editedExpense' = <<>>
  /\ Commit(expenses', isLoading, error, TRUE, ok)
  /\ UNCHANGED <<image, isLoading, userId, sortOrder, inputValue, jobs, now,
                 requests, restarts, editOps, mounted, finished>>

\* prevExpenses.filter(exp => exp.id !== id)
RemoveId(prevExpenses, id) == SelectSeq(prevExpenses, LAMBDA exp : exp.id # id)

\* Delete button of a shown record; confirmed is window.confirm's answer.
handleDelete(id, confirmed, ok) ==
  /\ Interactive
  /\ IF confirmed
       THEN /\ lastOp' = "handleDelete"
            /\ expenses' = RemoveId(expenses, id)
            /\ Commit(expenses', isLoading, error, TRUE, ok)
            /\ UNCHANGED <<image, isLoading, userId, sortOrder, editingId,
                           editedExpense, inputValue, jobs, now, requests,
                           restarts, editOps, mounted, finished>>
       ELSE /\ lastOp' = "deleteDeclined"
            /\ UNCHANGED <<expenses, image, isLoading, error, userId, sortOrder,
                           editingId, editedExpense, rendered, renderQueued,
                           expensesSet, effects, localStorage, inputValue, jobs,
                           now, requests, writeOk, writeFailures, restarts, editOps, mounted, finished>>

(***************************************************************************)
(* The edit form's inputs.                                                 *)
(***************************************************************************)
\* What the user can type into an input of the form.
InputValues == {"9", ""}
FieldInputs(name) == IF name = "total" THEN InputValues ELSE {""}
ItemInputs(name) == IF name = "quantity" THEN InputValues ELSE {"9"}
\* parseFloat(value) || 0
ParseFloatOr0(value) == IF value = "9" THEN 9 ELSE 0

FieldNames == {"merchant", "date", "total"}
ItemTextNames == {"description", "description_en"}
ItemNumberNames == {"quantity", "unit_price", "price"}

\* The buffer op shared by the form's handlers: the form is on the page.
FormOp(ok) ==
  /\ Interactive
  /\ FormShown
  /\ editOps < MaxEditOps
  /\ editOps' = editOps + 1
  /\ Commit(expenses, isLoading, error, FALSE, ok)
  /\ UNCHANGED <<expenses, image, isLoading, userId, sortOrder, editingId,
                 inputValue, jobs, now, requests, restarts, mounted, finished>>

\* prev => ({...prev, [name]: name === 'total' ? parseFloat(value) || 0 : value})
handleFieldChange(name, value, ok) ==
  /\ lastOp' = "handleFieldChange"
  /\ FormOp(ok)
  /\ editedExpense' = <<SetProp(editedExpense[1], name,
                                IF name = "total" THEN ParseFloatOr0(value) ELSE value)>>

\* newItems[index] = {...newItems[index], [name]: ...}
handleItemChange(index, name, value, ok) ==
  /\ lastOp' = "handleItemChange"
  /\ FormOp(ok)
  /\ LET items == editedExpense[1].items
         currentItem == SetProp(items[index], name,
                                IF name \in ItemNumberNames
                                  THEN ParseFloatOr0(value) ELSE value)
     IN editedExpense' = <<SetProp(editedExpense[1], "items",
                                   [items EXCEPT ![index] = currentItem])>>

BlankItem ==
  [description |-> "", description_en |-> "", quantity |-> 1, unit_price |-> 0,
   price |-> 0]

handleAddItem(ok) ==
  /\ lastOp' = "handleAddItem"
  /\ FormOp(ok)
  /\ editedExpense' = <<SetProp(editedExpense[1], "items",
                                Append(editedExpense[1].items, BlankItem))>>

\* editedExpense.items.filter((_, i) => i !== index)
handleRemoveItem(index, ok) ==
  /\ lastOp' = "handleRemoveItem"
  /\ FormOp(ok)
  /\ LET items == editedExpense[1].items IN
       editedExpense' = <<SetProp(editedExpense[1], "items",
                                  [i \in 1..(Len(items) - 1) |->
                                     IF i < index THEN items[i] ELSE items[i + 1]])>>

(***************************************************************************)
(* The page is loaded again: the component state is lost, localStorage     *)
(* stays, whatever was in flight is dropped.                               *)
(***************************************************************************)
Restart ==
  /\ lastOp' = "mount"
  /\ restarts < MaxRestarts
  /\ restarts' = restarts + 1
  /\ expenses' = <<>>
  /\ image' = Null
  /\ isLoading' = FALSE
  /\ error' = Null
  /\ userId' = Null
  /\ sortOrder' = "desc"
  /\ editingId' = <<>>
  /\ editedExpense' = <<>>
  /\ rendered' = [expenses |-> <<>>, userId |-> Null, isLoading |-> FALSE]
  /\ renderQueued' = FALSE
  /\ expensesSet' = FALSE
  /\ effects' = <<"identity", "load", "save">>
  /\ inputValue' = ""
  /\ jobs' = [j \in Jobs |-> IF jobs[j].phase = "none" THEN NoJob
                                ELSE [phase |-> "past", file |-> NoFile]]
  /\ requests' = 0
  /\ writeOk' = TRUE
  /\ finished' = <<>>
  /\ mounted' = [item |-> Mounted(localStorage).item,
                 memory |-> IF effects = <<>> /\ ~renderQueued /\ writeOk
                              THEN <<expenses>> ELSE <<>>]
  /\ UNCHANGED <<localStorage, now, editOps, writeFailures>>

\* The rows of the edit form.
ItemIndexes == IF editedExpense = <<>> THEN {} ELSE DOMAIN editedExpense[1].items

\* Every step of the page, over a storage whose setItem outcomes are oks and
\* a user who picks among files.
Step(oks, files) ==
  \/ IdentityEffect
  \/ LoadEffect
  \/ \E ok \in oks : SaveEffect(ok)
  \/ Render
  \/ \E j \in Jobs, file \in files, ok \in oks :
       ~UploadDisabled /\ handleImageChange(j, file, ok)
  \/ \E j \in Jobs : SendRequest(j)
  \/ \E j \in Jobs : IngestSuccess(j)
  \/ \E j \in Jobs : IngestFailure(j)
  \/ \E expense \in Shown, ok \in oks : handleEdit(expense, ok)
  \/ \E ok \in oks : handleCancelEdit(ok)
  \/ \E ok \in oks : handleSaveEdit(ok)
  \/ \E expense \in Shown, confirmed \in BOOLEAN, ok \in oks :
       handleDelete(expense.id, confirmed, ok)
  \/ \E name \in FieldNames, ok \in oks :
       \E value \in FieldInputs(name) : handleFieldChange(name, value, ok)
  \/ \E index \in ItemIndexes, name \in ItemTextNames \cup ItemNumberNames, ok \in oks :
       \E value \in ItemInputs(name) : handleItemChange(index, name, value, ok)
  \/ \E ok \in oks : handleAddItem(ok)
  \/ \E index \in ItemIndexes, ok \in oks : handleRemoveItem(index, ok)
  \/ Restart

\* The page over a storage that never runs out.
Next == Step(SetItemReturns, Files)

Spec == Init /\ [][Next]_vars

\* The ingestion handler called whatever the input's disabled attribute says,
\* as a script or a test dispatching change events calls it.
NextUngated ==
  \/ IdentityEffect
  \/ LoadEffect
  \/ \E ok \in SetItemReturns : SaveEffect(ok)
  \/ Render
  \/ \E j \in Jobs, file \in Files, ok \in SetItemReturns : handleImageChange(j, file, ok)
  \/ \E j \in Jobs : SendRequest(j)
  \/ \E j \in Jobs : IngestSuccess(j)
  \/ \E j \in Jobs : IngestFailure(j)

SpecUngated == Init /\ [][NextUngated]_vars

\* The page over a storage that can run out.
NextStorage == Step(SetItemOutcomes, {"cafe.jpg"})

SpecStorage == Init /\ [][NextStorage]_vars

(***************************************************************************)
(* Properties.                                                             *)
(***************************************************************************)
\* Nothing is waiting: every update is rendered and every effect has run.
Settled == effects = <<>> /\ ~renderQueued

\* The phases of a call that failed, and of a call that sent its request.
FailedPhases == {"readFailed", "requestFailed", "decodeFailed"}
RequestedPhases == {"requesting", "success", "requestFailed", "decodeFailed"}

\* C1: a successful ingestion (the step that takes a call from its request to
\* success) adds exactly one record, the one assembled from the model's
\* answer, at the front of the in-memory collection and leaves every record
\* that was there unchanged and in the same order behind it; and once the
\* save effect has run (nothing is waiting) the item stored under the
\* identity's key is the JSON text of the in-memory collection.
C1_SuccessfulIngestion ==
  [][ /\ \A j \in Jobs :
           (jobs[j].phase = "requesting" /\ jobs'[j].phase = "success") =>
             /\ Len(expenses') = Len(expenses) + 1
             /\ expenses'[1] = SetProp(ProcessedData(ModelAnswer(jobs[j].file)), "id", now')
             /\ \A i \in DOMAIN expenses : expenses'[i + 1] = expenses[i]
      /\ (Settled' /\ \E j \in Jobs : jobs'[j].phase = "success") =>
           /\ userId' # Null
           /\ localStorage'.expenses[userId'] = JSONstringify(expenses')
    ]_vars

\* An ingestion succeeded on top of a stored record and was written through.
C1_Witness ==
  /\ \E j \in Jobs : jobs[j].phase = "success"
  /\ lastOp = "saveEffect"
  /\ Settled
  /\ Len(expenses) = 2
  /\ expenses[2] = StoredRecord
  /\ localStorage.expenses[userId] = JSONstringify(expenses)

\* C2: in every reachable state the ids of the records of the in-memory
\* collection are pairwise distinct.
C2_UniqueIds ==
  \A i, k \in DOMAIN expenses : expenses[i].id = expenses[k].id => i = k

\* C3: write-through: whenever the identity is set, the last storage write
\* did not fail (in particular when none ever failed) and the save effect has
\* processed every mutation (nothing is waiting), the item stored under the
\* identity's key is the JSON text of the whole in-memory collection.
C3_WriteThrough ==
  (Settled /\ userId # Null /\ writeOk) =>
    localStorage.expenses[userId] = JSONstringify(expenses)

\* A confirmed delete written through after an earlier write had failed.
C3_Witness ==
  /\ Settled
  /\ writeOk
  /\ writeFailures > 0
  /\ lastOp = "handleDelete"
  /\ expenses # <<>>
  /\ localStorage.expenses[userId] = JSONstringify(expenses)

\* The startup has run to its end and the user has done nothing since.
StartupDone ==
  /\ Settled
  /\ userId # Null
  /\ lastOp \in {"saveEffect", "render"}
  /\ \A j \in Jobs : jobs[j].phase \in {"none", "past"}

\* C4: save/load round trip: when the startup has ended, the in-memory
\* collection equals the value of the JSON text the page found under the
\* identity's key, and equals the collection the session before held when
\* that session had written all its mutations through: same records, same
\* fields, same order.
C4_RoundTrip ==
  StartupDone =>
    /\ (mounted.item # NoItem /\ ~ParseThrows(mounted.item)) =>
         expenses = JSONparse(mounted.item)
    /\ mounted.memory # <<>> => expenses = mounted.memory[1]

\* A page loaded again over a session that held two records.
C4_Witness ==
  /\ restarts = 1
  /\ StartupDone
  /\ Len(expenses) = 2
  /\ mounted.memory = <<expenses>>

\* C5: handleSaveEdit replaces exactly the records whose id is the editing id
\* with the editing buffer, keeps the id and the position, leaves every other
\* record of the in-memory collection unchanged, and clears the editing id
\* and the editing buffer.
C5_CommitEdit ==
  [][ (lastOp' = "handleSaveEdit" /\ editingId # <<>> /\ editedExpense # <<>>) =>
        /\ Len(expenses') = Len(expenses)
        /\ \A i \in DOMAIN expenses :
             /\ i \in DOMAIN expenses'
             /\ expenses'[i] = (IF expenses[i].id = editingId[1]
                                  THEN editedExpense[1] ELSE expenses[i])
        /\ editedExpense[1].id = editingId[1]
        /\ editingId' = <<>>
        /\ editedExpense' = <<>>
    ]_vars

\* The steps of an edit session before its commit.
EditSessionOps ==
  {"handleEdit", "handleFieldChange", "handleItemChange", "handleAddItem",
   "handleRemoveItem", "handleCancelEdit"}

\* C6: edit-buffer isolation: handleEdit, handleFieldChange, handleItemChange,
\* handleAddItem, handleRemoveItem and handleCancelEdit each leave the
\* in-memory collection as it was, and leave the stored items as they were
\* unless the event flushes the write-through of that unchanged collection.
C6_BufferIsolation ==
  [][ lastOp' \in EditSessionOps =>
        /\ expenses' = expenses
        /\ \/ localStorage' = localStorage
           \/ expensesSet /\ localStorage' = SetExpensesItem(userId, expenses)
    ]_vars

\* An edit session with a changed buffer was cancelled.
C6_Witness ==
  /\ lastOp = "handleCancelEdit"
  /\ editOps > 0
  /\ editingId = <<>>
  /\ Len(expenses) > 0
  /\ localStorage.expenses[userId] = JSONstringify(expenses)

\* C7: a confirmed delete removes the records with the matching id and leaves
\* the others unchanged and in order; a declined delete leaves the in-memory
\* collection and the stored items unchanged; and no step other than a
\* confirmed delete (and the page being loaded again) drops a record id from
\* the in-memory collection.
C7_Delete ==
  [][ /\ lastOp' = "handleDelete" =>
           \E i \in DOMAIN expenses : expenses' = RemoveId(expenses, expenses[i].id)
      /\ lastOp' = "deleteDeclined" =>
           expenses' = expenses /\ localStorage' = localStorage
      /\ lastOp' \notin {"handleDelete", "mount"} =>
           \A i \in DOMAIN expenses :
             \E k \in DOMAIN expenses' : expenses'[k].id = expenses[i].id
    ]_vars

\* The record is the one assembled from the answer to call j's image.
FromJob(record, j) == record.merchant = ModelAnswer(jobs[j].file).merchant

\* Two calls, of different images, completed in reverse-dispatch order.
ReverseCompletion == finished = <<2, 1>> /\ jobs[1].file # jobs[2].file

C9_LoadingWhileInFlight ==
  (\E j \in Jobs : InFlight(j)) => (isLoading /\ rendered.isLoading)

\* A second ingestion is in flight after a first one succeeded.
C9_Witness ==
  /\ jobs[1].phase = "success"
  /\ InFlight(2)
  /\ isLoading
  /\ rendered.isLoading

\* C10: the step in which an ingestion fails (at the file read, at the
\* request or at decoding the response) sets the banner to the generic
\* message, adds no record, leaves the in-memory collection and the stored
\* items unchanged and sends no request; a read failure ends the call before
\* any request; and the requests sent are as many as the calls that reached
\* the request: none is sent again.
C10_IngestionFailure ==
  [][ /\ \A j \in Jobs :
           (InFlight(j) /\ jobs'[j].phase \in FailedPhases) =>
             /\ error' = IngestError
             /\ expenses' = expenses
             /\ localStorage' = localStorage
             /\ requests' = requests
             /\ jobs[j].phase = "reading" => jobs'[j].phase = "readFailed"
      /\ requests' = Cardinality({j \in Jobs : jobs'[j].phase \in RequestedPhases})
    ]_vars

\* A response that could not be decoded, with a record in the collection.
C10_Witness ==
  /\ \E j \in Jobs : jobs[j].phase = "decodeFailed"
  /\ lastOp = "ingestFailure"
  /\ error = IngestError
  /\ Len(expenses) > 0
  /\ requests = Cardinality({j \in Jobs : jobs[j].phase \in RequestedPhases})

\* The page with no edit session: effects, renders and ingestions through
\* the input.
NextIngestion ==
  \/ IdentityEffect
  \/ LoadEffect
  \/ \E ok \in SetItemReturns : SaveEffect(ok)
  \/ Render
  \/ \E j \in Jobs, file \in Files, ok \in SetItemReturns :
       ~UploadDisabled /\ handleImageChange(j, file, ok)
  \/ \E j \in Jobs : SendRequest(j)
  \/ \E j \in Jobs : IngestSuccess(j)
  \/ \E j \in Jobs : IngestFailure(j)

\* The promise call j awaits settles: the file read or the request resolves
\* or rejects, and the continuation of the handler runs.
Settles(j) == SendRequest(j) \/ IngestSuccess(j) \/ IngestFailure(j)

\* Every awaited promise eventually settles.
SpecSettling ==
  Init /\ [][NextIngestion]_vars /\ \A j \in Jobs : WF_vars(Settles(j))

\* The call is over.
Completed(j) == jobs[j].phase \in FailedPhases \cup {"success"}

\* C11: every call of handleImageChange goes from idle to reading, from
\* reading to requesting (one request sent) or to failure (no request sent),
\* and from requesting, where the response is parsed, to exactly one of
\* success (one record added, banner untouched) or failure (banner set,
\* collection untouched); a call that is over stays as it ended; the step
\* that ends it sets isLoading false, clears the preview and resets the
\* input; and, every awaited promise settling, a call in flight is
\* eventually over with isLoading false, no preview and the input reset.
C11_IngestionLifecycle ==
  /\ [][ \A j \in Jobs :
           jobs'[j].phase # jobs[j].phase =>
             /\ \/ /\ jobs[j].phase = "none"
                   /\ jobs'[j].phase = "reading"
                   /\ isLoading'
                \/ /\ jobs[j].phase = "reading"
                   /\ jobs'[j].phase = "requesting"
                   /\ requests' = requests + 1
                \/ /\ jobs[j].phase = "reading"
                   /\ jobs'[j].phase = "readFailed"
                   /\ requests' = requests
                \/ /\ jobs[j].phase = "requesting"
                   /\ jobs'[j].phase \in {"success", "requestFailed", "decodeFailed"}
                   /\ requests' = requests
             /\ jobs'[j].phase = "success" =>
                  Len(expenses') = Len(expenses) + 1 /\ error' = error
             /\ jobs'[j].phase \in FailedPhases =>
                  expenses' = expenses /\ error' = IngestError
             /\ Completed(j)' =>
                  ~isLoading' /\ image' = Null /\ inputValue' = ""
       ]_vars
  /\ \A j \in Jobs :
       InFlight(j) ~> (Completed(j) /\ ~isLoading /\ image = Null /\ inputValue = "")

\* One call ended at the file read and the next one succeeded.
C11_Witness ==
  /\ jobs[1].phase = "readFailed"
  /\ jobs[2].phase = "success"
  /\ requests = 1
  /\ ~isLoading
  /\ image = Null
  /\ inputValue = ""

\* The load effect of this page load has run over the identity's key.
Loaded == rendered.userId # Null /\ (effects = <<>> \/ Head(effects) # "load")

\* No ingestion was started since the page was loaded.
NoIngestionYet == \A j \in Jobs : jobs[j].phase \in {"none", "past"}

\* C12: when the item the page found under the identity's key is no JSON,
\* then from the load effect on, and until the user starts an ingestion, the
\* banner holds the load error and the in-memory collection is empty.
C12_CorruptLoad ==
  (mounted.item = Garbage /\ Loaded /\ NoIngestionYet) =>
    /\ error = LoadError
    /\ expenses = <<>>

\* After a load that failed, an ingestion added a record and it was stored.
C12_Witness ==
  /\ mounted.item = Garbage
  /\ Loaded
  /\ Settled
  /\ jobs[1].phase = "success"
  /\ Len(expenses) = 1
  /\ localStorage.expenses[userId] = JSONstringify(expenses)

\* The item under the identity's key is not the JSON text of the in-memory
\* collection.
Diverged == userId # Null /\ localStorage.expenses[userId] # JSONstringify(expenses)

\* The step is a setItem call of the save effect that threw.
FailedWrite == writeFailures' = writeFailures + 1

\* The step runs the save effect for a mutation of the collection: a commit
\* of an edit, a confirmed delete, or the effect after an ingestion.
MutationWrite ==
  \/ lastOp' \in {"handleSaveEdit", "handleDelete"}
  \/ lastOp' = "saveEffect" /\ \E j \in Jobs : jobs[j].phase = "success"

\* The in-memory collection after the step is the mutated one.
NoRollback ==
  IF lastOp' = "handleSaveEdit"
    THEN expenses' = ReplaceEdited(rendered.expenses, editingId, editedExpense)
  ELSE IF lastOp' = "handleDelete"
    THEN \E i \in DOMAIN expenses : expenses' = RemoveId(expenses, expenses[i].id)
  ELSE expenses' = expenses

\* What C13 says of a failed write and holds: the banner is the save error,
\* the in-memory collection keeps the mutation, the stored items keep their
\* value as long as no write succeeds, and the first write that succeeds
\* makes the stored item the JSON text of the in-memory collection.
StaleUntilNextWrite ==
  /\ FailedWrite =>
       /\ error' = SaveError
       /\ ~writeOk'
       /\ localStorage' = localStorage
       /\ NoRollback
  /\ (~writeOk /\ ~writeOk') => localStorage' = localStorage
  /\ (~writeOk /\ writeOk' /\ lastOp' # "mount") => ~Diverged'

\* C13 as stated: a failed write sets the banner to the save error, keeps the
\* mutation in memory and the previous value in storage, and from the failed
\* write of a mutation on the stored item and the in-memory collection are
\* different until the next write that succeeds, which makes them equal.
C13_DifferentUntilNextWrite ==
  [][ /\ StaleUntilNextWrite
      /\ (FailedWrite /\ MutationWrite) => Diverged'
      /\ (~writeOk /\ ~writeOk' /\ Diverged) => Diverged'
    ]_vars

\* C13 amended: a failed write sets the banner to the save error, keeps the
\* mutation in memory (no rollback) and leaves the stored items at their
\* previous value, where they stay until the next write that succeeds, after
\* which the stored item is the JSON text of the in-memory collection again.
C13_StaleUntilNextWrite == [][StaleUntilNextWrite]_vars

\* A confirmed delete whose write failed: the record is gone from memory and
\* still stored.
C13_Witness ==
  /\ lastOp = "handleDelete"
  /\ ~writeOk
  /\ error = SaveError
  /\ Diverged
  /\ Len(JSONparse(localStorage.expenses[userId])) = Len(expenses) + 1

\* C14: the identity effect of a profile that holds no token creates one and
\* stores it; a stored token is never replaced or removed by any step; and
\* the identity of every page load is the stored token, so the key of the
\* expenses item is the same in all runs of the profile.
C14_IdentityStability ==
  [][ /\ localStorage.userId # Null => localStorage'.userId = localStorage.userId
      /\ lastOp' = "identityEffect" =>
           /\ localStorage'.userId # Null
           /\ userId' = localStorage'.userId
           /\ localStorage.userId = Null => localStorage'.userId \in FreshTokens
      /\ userId' # Null => userId' = localStorage'.userId
      /\ lastOp' # "identityEffect" => localStorage'.userId = localStorage.userId
    ]_vars

\* A profile that held no token: the token created by the first run is the
\* identity of the second run, which loaded what the first run stored.
C14_Witness ==
  /\ restarts = 1
  /\ mounted.item # NoItem
  /\ mounted.memory # <<>>
  /\ Len(expenses) > 0
  /\ StartupDone
  /\ userId \in FreshTokens
  /\ localStorage.userId = userId
  /\ localStorage.expenses["user_a"] = NoItem

\* The rows of the list that show the edit form.
EditRows ==
  {i \in DOMAIN rendered.expenses : <<rendered.expenses[i].id>> = editingId}

\* handleEdit set the one editing id and the one buffer to a copy of a shown
\* record, whatever the buffer held, and left the collection alone.
BeginEditReplaces ==
  lastOp' = "handleEdit" =>
    /\ \E expense \in Shown :
         /\ editingId' = <<expense.id>>
         /\ editedExpense' = <<expense>>
    /\ expenses' = expenses

\* C15: at most one record of the list is in edit mode, and handleEdit on a
\* record while another edit is open makes the buffer a copy of that record,
\* dropping the changes of the open edit, and leaves the in-memory
\* collection unchanged.
C15_SingleEdit ==
  [][Cardinality(EditRows') <= 1 /\ BeginEditReplaces]_vars

\* The page with its sort button and no edit session: effects, renders,
\* ingestions through the input and toggles of the sort order.
NextSorting ==
  \/ NextIngestion
  \/ \E ok \in SetItemReturns : toggleSortOrder(ok)

SpecSorting == Init /\ [][NextSorting]_vars

\* The list on the page: the sort of the collection the page was rendered with.
Displayed == sortedExpenses(rendered.expenses, sortOrder)

\* The two sequences hold the same records, each as many times.
IsPermutation(a, b) ==
  /\ Len(a) = Len(b)
  /\ \A i \in DOMAIN a :
       Cardinality({k \in DOMAIN a : a[k] = a[i]}) = Cardinality({k \in DOMAIN b : b[k] = a[i]})

\* Record a is dated no later than record b, a record without a date being
\* earlier than every dated one.
NotLater(a, b) ==
  LET Dated(r) == Has(r, "date") /\ r.date # "" IN
    \/ ~Dated(a)
    \/ Dated(a) /\ Dated(b) /\ getTime(a.date) <= getTime(b.date)

\* The sum of the totals of the records at the given positions, a record
\* without a total counting 0.
RECURSIVE SumOfTotals(_, _)
SumOfTotals(records, positions) ==
  IF positions = {} THEN 0
  ELSE LET i == CHOOSE k \in positions : TRUE IN
         (IF Has(records[i], "total") THEN records[i].total ELSE 0)
           + SumOfTotals(records, positions \ {i})

\* C16: a toggle of the sort order flips the setting (so two toggles restore
\* it) and leaves the in-memory collection and its total unchanged, and the
\* stored items too unless the event flushes the write-through of that
\* unchanged collection; and in every state the displayed list is a
\* permutation of the collection it is rendered from, ordered by date in the
\* direction of the setting with undated records as the earliest, and the
\* total is the sum of the records' totals with an absent total as 0,
\* the same over the collection and over either display order.
C16_SortAndTotal ==
  [][ /\ lastOp' = "toggleSortOrder" =>
           /\ sortOrder' # sortOrder
           /\ expenses' = expenses
           /\ totalExpenses(expenses') = totalExpenses(expenses)
           /\ \/ localStorage' = localStorage
              \/ expensesSet /\ localStorage' = SetExpensesItem(userId, expenses)
      /\ sortOrder' \in {"asc", "desc"}
      /\ IsPermutation(Displayed', rendered'.expenses)
      /\ \A p, q \in DOMAIN Displayed' :
           p < q => IF sortOrder' = "asc" THEN NotLater(Displayed'[p], Displayed'[q])
                                          ELSE NotLater(Displayed'[q], Displayed'[p])
      /\ totalExpenses(expenses') = SumOfTotals(expenses', DOMAIN expenses')
      /\ totalExpenses(Displayed') = SumOfTotals(rendered'.expenses, DOMAIN rendered'.expenses)
    ]_vars

\* Oldest first over three records, the undated one shown first though it
\* is not first in the collection.
C16_Witness ==
  /\ lastOp = "toggleSortOrder"
  /\ sortOrder = "asc"
  /\ Len(expenses) = 3
  /\ ~Has(Displayed[1], "date")
  /\ Has(expenses[1], "date")
  /\ Displayed # expenses
  /\ totalExpenses(expenses) = 8

\* C17: the items of the record a successful ingestion adds are those of the
\* model's answer, in the answer's order, where a missing quantity is 1, a
\* missing unit_price is the item's price, or 0 when the price is missing
\* too, a missing price is 0, and a unit_price that is present is kept as
\* given.
C17_ItemNormalization ==
  [][ \A j \in Jobs :
        (jobs[j].phase = "requesting" /\ jobs'[j].phase = "success") =>
          LET answer == ModelAnswer(jobs[j].file).items
              items == expenses'[1].items
          IN /\ Len(items) = Len(answer)
             /\ \A i \in DOMAIN answer :
                  /\ items[i].description = answer[i].description
                  /\ ~Has(answer[i], "quantity") => items[i].quantity = 1
                  /\ ~Has(answer[i], "price") => items[i].price = 0
                  /\ ~Has(answer[i], "unit_price") =>
                       items[i].unit_price =
                         (IF Has(answer[i], "price") THEN answer[i].price ELSE 0)
                  /\ Has(answer[i], "unit_price") =>
                       items[i].unit_price = answer[i].unit_price
    ]_vars

\* C18: the completion of an ingestion leaves the editing id and the buffer
\* as they are, and a commit of the edit keeps every record that is not the
\* edited one, the record an ingestion added during the session among them,
\* in the in-memory collection and in the stored one.
C18_NoLostUpdate ==
  [][ /\ \A j \in Jobs :
           (jobs[j].phase = "requesting" /\ jobs'[j].phase = "success") =>
             editingId' = editingId /\ editedExpense' = editedExpense
      /\ lastOp' = "handleSaveEdit" =>
           \A i \in DOMAIN expenses :
             <<expenses[i].id>> # editingId =>
               /\ \E k \in DOMAIN expenses' : expenses'[k] = expenses[i]
               /\ LET stored == JSONparse(localStorage'.expenses[userId]) IN
                    \E k \in DOMAIN stored : stored[k] = expenses[i]
    ]_vars

\* The page is in its startup, or at the end of it: nothing but the page
\* load, the effects and the renders has happened.
InStartup ==
  /\ NoIngestionYet
  /\ lastOp \in {"mount", "identityEffect", "loadEffect", "saveEffect", "render"}

\* C19: when the page is loaded over a well-formed non-empty collection in
\* the item under the identity's key, the item keeps that value at every
\* step of the startup, and the startup ends with the in-memory collection
\* equal to it.
C19_StartupKeepsStored ==
  (/\ InStartup
   /\ mounted.item # NoItem
   /\ ~ParseThrows(mounted.item)
   /\ JSONparse(mounted.item) # <<>>) =>
    /\ localStorage.expenses[localStorage.userId] = mounted.item
    /\ StartupDone => expenses = JSONparse(mounted.item)

\* The editing id and the buffer are null together, and when they are not
\* the buffer's id is the editing id and a record of the in-memory
\* collection has it.
EditSessionConsistent ==
  /\ editingId = <<>> <=> editedExpense = <<>>
  /\ editingId # <<>> =>
       /\ editedExpense[1].id = editingId[1]
       /\ \E i \in DOMAIN expenses : expenses[i].id = editingId[1]

\* C20: in every reachable state the edit session is consistent (both null,
\* or the buffer's id is the editing id and a record with that id is in the
\* in-memory collection), so that a commit always puts the buffer in the
\* place of a record of the collection.
C20_EditSessionInvariant ==
  [][ /\ EditSessionConsistent'
      /\ lastOp' = "handleSaveEdit" =>
           /\ EditSessionConsistent
           /\ \E i \in DOMAIN expenses' :
                expenses'[i] = editedExpense[1] /\ expenses'[i].id = editingId[1]
    ]_vars

\* An open edit session with a changed buffer, next to a record that is not
\* in edit mode.
C20_Witness ==
  /\ editingId # <<>>
  /\ editOps > 0
  /\ Len(expenses) = 2
  /\ \E i \in DOMAIN expenses : expenses[i].id # editingId[1]
  /\ \E i \in DOMAIN expenses :
       expenses[i].id = editingId[1] /\ expenses[i] # editedExpense[1]

====
